---- MODULE Spec2Model ----
(***************************************************************************)
(* Model of pdf_to_json.py: parse_pdf (line assembly, role classification, *)
(* section tracking, number-line merging, table selection, chart           *)
(* deduplication, page ordering) and the command-line driver main.         *)
(*                                                                         *)
(* Representation.  A Python float is a pair <<w, f>> standing for         *)
(* w + f/16 (w >= 0, f in 0..15); every such value is exact in binary      *)
(* floating point, so round() acts on it by round-half-to-even.  A value   *)
(* rounded to one decimal is a pair <<w, t>> standing for w + t/10.  A     *)
(* Python str is a sequence of one-character strings.  None is <<>> and    *)
(* any other optional value x is <<x>>.                                    *)
(***************************************************************************)
EXTENDS Integers, Sequences, FiniteSets, TLC

None ==
    <<>>

Some(x) ==
    <<x>>

(* ---------------------------------------------------------------------- *)
(* Numbers                                                                *)
(* ---------------------------------------------------------------------- *)

\* round(x) with no ndigits: nearest integer, ties to the even integer.
RoundInt(x) ==
    IF x[2] < 8 THEN x[1]
    ELSE IF x[2] > 8 THEN x[1] + 1
    ELSE IF x[1] % 2 = 0 THEN x[1] ELSE x[1] + 1

\* round(x, 1): nearest tenth, ties to the even tenth; result <<w, t>>.
Round1(x) ==
    LET q == 10 * x[2]
        t == q \div 16
        r == q % 16
        u == IF r < 8 THEN t
             ELSE IF r > 8 THEN t + 1
             ELSE IF t % 2 = 0 THEN t ELSE t + 1
    IN  IF u = 10 THEN <<x[1] + 1, 0>> ELSE <<x[1], u>>

\* a < b on pairs <<w, f>>
NumLess(a, b) ==
    \/ a[1] < b[1]
    \/ a[1] = b[1] /\ a[2] < b[2]

NumLeq(a, b) ==
    a = b \/ NumLess(a, b)

(* ---------------------------------------------------------------------- *)
(* Strings                                                                *)
(* ---------------------------------------------------------------------- *)

UpperChars ==
    {"A", "B", "C", "D", "E", "F", "G", "H", "I", "J", "K", "L", "M",
     "N", "O", "P", "Q", "R", "S", "T", "U", "V", "W", "X", "Y", "Z"}

LowerChars ==
    {"a", "b", "c", "d", "e", "f", "g", "h", "i", "j", "k", "l", "m",
     "n", "o", "p", "q", "r", "s", "t", "u", "v", "w", "x", "y", "z"}

DigitChars ==
    {"0", "1", "2", "3", "4", "5", "6", "7", "8", "9"}

SpaceChars ==
    {" "}

RECURSIVE LStrip(_)
LStrip(s) ==
    IF s = <<>> THEN s
    ELSE IF s[1] \in SpaceChars THEN LStrip(Tail(s)) ELSE s

RECURSIVE RStrip(_)
RStrip(s) ==
    IF s = <<>> THEN s
    ELSE IF s[Len(s)] \in SpaceChars THEN RStrip(SubSeq(s, 1, Len(s) - 1)) ELSE s

\* str.strip()
Strip(s) ==
    RStrip(LStrip(s))

\* str.isupper(): at least one cased character and no lowercase one
IsUpper(s) ==
    /\ \E k \in 1..Len(s) : s[k] \in UpperChars
    /\ \A k \in 1..Len(s) : s[k] \notin LowerChars

\* len(str.split()): the number of maximal runs of non-whitespace
WordCount(s) ==
    Cardinality({k \in 1..Len(s) :
        /\ s[k] \notin SpaceChars
        /\ (k = 1 \/ s[k - 1] \in SpaceChars)})

\* str.isdigit(): non-empty and every character a digit
IsDigit(s) ==
    /\ s # <<>>
    /\ \A k \in 1..Len(s) : s[k] \in DigitChars

RECURSIVE Remove(_, _)
\* str.replace(c, "") for a one-character c
Remove(s, c) ==
    IF s = <<>> THEN s
    ELSE IF s[1] = c THEN Remove(Tail(s), c)
    ELSE <<s[1]>> \o Remove(Tail(s), c)

RECURSIVE Join(_)
\* "".join([c["text"] for c in char_list])
Join(chars) ==
    IF chars = <<>> THEN <<>>
    ELSE <<chars[1].text>> \o Join(Tail(chars))

T_TOTAL ==
    <<"T", "o", "t", "a", "l", " ", "r", "e", "v", "e", "n", "u", "e", " ", "w", "a", "s">>

T_REVENUE ==
    <<"R", "E", "V", "E", "N", "U", "E">>

T_NUM ==
    <<"1", " ", "2", "3", "4">>

T_42 ==
    <<"4", "2">>

T_PCT ==
    <<"-", "7", ".", "5", "%">>

T_SUMMARY ==
    <<"S", "U", "M", "M", "A", "R", "Y">>

T_ANNUAL ==
    <<"A", "n", "n", "u", "a", "l", " ", "F", "i", "n", "a", "n", "c", "i", "a", "l", " ", "S", "u", "m", "m", "a", "r", "y">>

T_UP14 ==
    <<"A", "N", "N", "U", "A", "L", " ", "S", "U", "M", "M", "A", "R", "Y">>

T_UP15 ==
    <<"Q", "U", "A", "R", "T", "E", "R", "L", "Y", " ", "T", "O", "T", "A", "L">>

T_ABC ==
    <<"A", " ", "B", " ", "C">>

T_BLANK ==
    <<" ">>

T_DASH ==
    <<"-">>

T_TAIL ==
    <<" ", "5">>

T_MERGED ==
    <<"T", "o", "t", "a", "l", " ", "r", "e", "v", "e", "n", "u", "e", " ", "w", "a", "s", " ", "1", " ", "2", "3", "4">>
(* ---------------------------------------------------------------------- *)
(* Pure functions of pdf_to_json.py                                       *)
(* ---------------------------------------------------------------------- *)

SECTION_FONT_SIZE ==
    14

SUBSECTION_FONT_SIZE ==
    12

SORT_SENTINEL ==
    1000000000

\* font_sizes[s] after the counting loop
FontSizeCount(chars, s) ==
    Cardinality({k \in 1..Len(chars) : RoundInt(chars[k].size) = s})

RECURSIVE FontSizeKeys(_, _)
\* the keys of font_sizes in the order the dict enumerates them (insertion)
FontSizeKeys(chars, keys) ==
    IF chars = <<>> THEN keys
    ELSE LET s == RoundInt(chars[1].size)
         IN  IF \E k \in 1..Len(keys) : keys[k] = s
             THEN FontSizeKeys(Tail(chars), keys)
             ELSE FontSizeKeys(Tail(chars), Append(keys, s))

\* max(font_sizes, key=font_sizes.get): the first enumerated key of maximal count
DominantSize(chars) ==
    LET keys == FontSizeKeys(chars, <<>>)
        best == CHOOSE k \in 1..Len(keys) :
                    /\ \A j \in 1..Len(keys) :
                          FontSizeCount(chars, keys[j]) <= FontSizeCount(chars, keys[k])
                    /\ \A j \in 1..(k - 1) :
                          FontSizeCount(chars, keys[j]) < FontSizeCount(chars, keys[k])
    IN  keys[best]

identify_text_role(chars) ==
    IF chars = <<>> THEN "paragraph"
    ELSE IF DominantSize(chars) >= SECTION_FONT_SIZE THEN "section"
    ELSE IF DominantSize(chars) >= SUBSECTION_FONT_SIZE THEN "sub_section"
    ELSE "paragraph"

is_number_line_keep_spaces(text) ==
    IsDigit(Remove(Remove(Remove(text, "-"), "."), "%"))

is_number_line(text) ==
    IsDigit(Remove(Remove(Remove(Remove(text, " "), "-"), "."), "%"))

\* tuple(round(v, 1) for v in ch["bbox"])
BBoxKey(ch) ==
    LET b == ch.bbox[1]
    IN  <<Round1(b[1]), Round1(b[2]), Round1(b[3]), Round1(b[4])>>

RECURSIVE DedupLoop(_, _, _)
DedupLoop(charts, seen, unique) ==
    IF charts = <<>> THEN unique
    ELSE IF BBoxKey(charts[1]) \notin seen
         THEN DedupLoop(Tail(charts), seen \cup {BBoxKey(charts[1])},
                        Append(unique, charts[1]))
         ELSE DedupLoop(Tail(charts), seen, unique)

RECURSIVE DedupKeepLast(_)
DedupKeepLast(charts) ==
    IF charts = <<>> THEN <<>>
    ELSE IF \E k \in 2..Len(charts) : BBoxKey(charts[k]) = BBoxKey(charts[1])
         THEN DedupKeepLast(Tail(charts))
         ELSE <<charts[1]>> \o DedupKeepLast(Tail(charts))

deduplicate_charts(charts) ==
    DedupLoop(charts, {}, <<>>)

\* camelot is the environment's table engine for one page:
\* installed or not, raising or not, and the grids (t.data) it detects
extract_tables_with_camelot(camelot) ==
    IF ~camelot.installed THEN <<>>
    ELSE IF camelot.raises THEN <<>>
    ELSE camelot.tables

\* truthiness of a table cell: None and "" are falsy
CellTruthy(cell) ==
    cell # None /\ cell[1] # ""

\* tbl and any(any(cell for cell in row) for row in tbl)
GridAccepted(tbl) ==
    /\ tbl # <<>>
    /\ \E r \in 1..Len(tbl) : \E c \in 1..Len(tbl[r]) : CellTruthy(tbl[r][c])

\* line 86: the running header/footer heuristic
IsHeaderFooterLoose(line_text) ==
    IsUpper(line_text) /\ WordCount(line_text) <= 2 /\ Len(line_text) <= 15

IsHeaderFooter(line_text) ==
    IsUpper(line_text) /\ WordCount(line_text) <= 2 /\ Len(line_text) < 15

\* lines 90-94: the section slot after a line of the given role
SectionAfter(role, line_text, section) ==
    IF role = "section" THEN Some(line_text) ELSE section

SubSectionAfterKeep(role, line_text, sub_section) ==
    IF role = "sub_section" THEN Some(line_text) ELSE sub_section

\* lines 90-94: the sub-section slot after a line of the given role
SubSectionAfter(role, line_text, sub_section) ==
    IF role = "section" THEN None
    ELSE IF role = "sub_section" THEN Some(line_text)
    ELSE sub_section

\* lines 74-78: group the characters by round(top), lines in ascending order
LineTops(chars) ==
    {RoundInt(chars[k].top) : k \in 1..Len(chars)}

CharsAt(chars, t) ==
    SelectSeq(chars, LAMBDA c : RoundInt(c.top) = t)

RECURSIVE AscendingSeq(_)
AscendingSeq(S) ==
    IF S = {} THEN <<>>
    ELSE LET m == CHOOSE x \in S : \A y \in S : x <= y
         IN  <<m>> \o AscendingSeq(S \ {m})

SortedLines(chars) ==
    LET tops == AscendingSeq(LineTops(chars))
    IN  [k \in 1..Len(tops) |-> [top |-> tops[k], char_list |-> CharsAt(chars, tops[k])]]

\* line 150: the sort key of an entry
SortKey(entry) ==
    IF entry.top # None THEN entry.top[1] ELSE <<SORT_SENTINEL, 0>>

RECURSIVE InsertStable(_, _)
\* insert e after every element whose key is <= e's key
InsertStable(sorted, e) ==
    IF sorted = <<>> THEN <<e>>
    ELSE IF NumLess(SortKey(e), SortKey(sorted[1])) THEN <<e>> \o sorted
    ELSE <<sorted[1]>> \o InsertStable(Tail(sorted), e)

RECURSIVE SortLoop(_, _)
SortLoop(todo, sorted) ==
    IF todo = <<>> THEN sorted
    ELSE SortLoop(Tail(todo), InsertStable(sorted, todo[1]))

\* lines 148-151: sorted() is stable
SortedByTop(page_content) ==
    SortLoop(page_content, <<>>)

\* json.dump writes the document piece by piece
Serialize(doc) ==
    <<[tok |-> "begin", val |-> None]>>
    \o [k \in 1..Len(doc) |-> [tok |-> "page", val |-> Some(doc[k])]]
    \o <<[tok |-> "end", val |-> None]>>

(* ---------------------------------------------------------------------- *)
(* Bounded inputs                                                         *)
(* ---------------------------------------------------------------------- *)

MaxRuns ==
    4

MaxPages ==
    2

MaxTables ==
    2

MaxImages ==
    2

Body ==
    <<10, 0>>

H1 ==
    <<16, 0>>

\* 13.5 rounds to 14
NearH1 ==
    <<13, 8>>

\* 12.5 rounds to 12
H2 ==
    <<12, 8>>

Uniform(text, size) ==
    [k \in 1..Len(text) |-> size]

\* the characters of one run of text set at one vertical position
Run(text, top, sizes) ==
    [k \in 1..Len(text) |-> [text |-> text[k], top |-> top, size |-> sizes[k]]]

RunPalette ==
    << Run(T_TOTAL,   <<20, 0>>, Uniform(T_TOTAL, Body)),
       Run(T_REVENUE, <<10, 0>>, Uniform(T_REVENUE, H1)),
       Run(T_NUM,     <<30, 0>>, Uniform(T_NUM, Body)),
       Run(T_42,      <<40, 0>>, <<H1, Body>>),
       Run(T_42,      <<50, 8>>, <<Body, H1>>),
       Run(T_SUMMARY, <<28, 0>>, Uniform(T_SUMMARY, H1)),
       Run(T_ANNUAL,  <<70, 0>>, Uniform(T_ANNUAL, H2)),
       Run(T_UP14,    <<38, 0>>, Uniform(T_UP14, Body)),
       Run(T_UP15,    <<90, 0>>, Uniform(T_UP15, NearH1)),
       Run(T_ABC,     <<15, 8>>, Uniform(T_ABC, Body)),
       Run(T_BLANK,   <<25, 0>>, Uniform(T_BLANK, Body)),
       Run(T_DASH,    <<35, 0>>, Uniform(T_DASH, Body)),
       Run(T_TAIL,    <<20, 4>>, Uniform(T_TAIL, Body)),
       Run(T_PCT,     <<45, 0>>, Uniform(T_PCT, H2)) >>

NotInstalled ==
    [installed |-> FALSE, raises |-> FALSE, tables |-> <<>>]

G_BLANK ==
    << <<Some(""), None>> >>

G_A ==
    << <<Some("a"), Some("")>> >>

G_B ==
    << <<None>>, <<Some("b")>> >>

GridPalette ==
    {<<>>, G_BLANK, G_A, G_B}

CamelotOutcomes ==
    { NotInstalled,
      [installed |-> TRUE, raises |-> TRUE,  tables |-> <<>>],
      [installed |-> TRUE, raises |-> FALSE, tables |-> <<>>],
      [installed |-> TRUE, raises |-> FALSE, tables |-> <<G_BLANK>>],
      [installed |-> TRUE, raises |-> FALSE, tables |-> <<G_B, G_A>>] }

\* image descriptors: x0, top, x1, bottom
ImagePalette ==
    { [x0 |-> <<1, 0>>, top |-> <<5, 1>>,  x1 |-> <<2, 0>>, bottom |-> <<6, 0>>],
      [x0 |-> <<1, 0>>, top |-> <<5, 2>>,  x1 |-> <<2, 0>>, bottom |-> <<6, 0>>],
      [x0 |-> <<1, 4>>, top |-> <<70, 0>>, x1 |-> <<2, 0>>, bottom |-> <<80, 0>>],
      [x0 |-> <<1, 3>>, top |-> <<90, 0>>, x1 |-> <<2, 0>>, bottom |-> <<99, 12>>],
      [x0 |-> <<0, 0>>, top |-> <<SORT_SENTINEL, 8>>, x1 |-> <<1, 0>>,
       bottom |-> <<SORT_SENTINEL + 1, 0>>] }

SeqsUpTo(S, n) ==
    UNION {[1..k -> S] : k \in 0..n}

RECURSIVE PageChars(_, _)
\* the characters of a page made of the chosen runs, in palette order
PageChars(chosen, k) ==
    IF k > Len(RunPalette) THEN <<>>
    ELSE (IF k \in chosen THEN RunPalette[k] ELSE <<>>) \o PageChars(chosen, k + 1)

TextPage(chars) ==
    [chars |-> chars, images |-> <<>>, tables |-> <<>>, camelot |-> NotInstalled]

RunChoices ==
    {c \in SUBSET (1..Len(RunPalette)) : Cardinality(c) <= MaxRuns}

\* one-page documents of text only: at most MaxRuns runs
TextDocs ==
    { << TextPage(PageChars(chosen, 1)) >> : chosen \in RunChoices }

PagePalette ==
    { TextPage(<<>>),
      TextPage(RunPalette[1] \o RunPalette[3]),
      TextPage(RunPalette[9] \o RunPalette[7] \o RunPalette[12]),
      [chars |-> RunPalette[4] \o RunPalette[7],
       images |-> << CHOOSE img \in ImagePalette : img.top = <<5, 1>> >>,
       tables |-> <<G_A>>, camelot |-> NotInstalled] }

\* documents of at most MaxPages pages
PagedDocs ==
    SeqsUpTo(PagePalette, MaxPages)

\* one-page documents that vary the tables
TableDocs ==
    { << [chars |-> chars, images |-> images, tables |-> tables, camelot |-> camelot] >> :
        <<chars, images, tables, camelot>> \in
          {<<>>, RunPalette[9]}
          \X SeqsUpTo({CHOOSE img \in ImagePalette : img.top = <<70, 0>>}, 1)
          \X SeqsUpTo(GridPalette, MaxTables)
          \X CamelotOutcomes }

\* one-page documents that vary the images
ChartDocs ==
    { << [chars |-> chars, images |-> images, tables |-> tables, camelot |-> NotInstalled] >> :
        <<chars, images, tables>> \in
          {<<>>, RunPalette[7], RunPalette[9] \o RunPalette[7]}
          \X SeqsUpTo(ImagePalette, MaxImages)
          \X {<<>>, <<G_A>>} }

Docs ==
    TextDocs \cup PagedDocs \cup TableDocs \cup ChartDocs

OldContent ==
    <<[tok |-> "old", val |-> None]>>

(* ---------------------------------------------------------------------- *)
(* State                                                                  *)
(* ---------------------------------------------------------------------- *)

VARIABLES
    input_exists,        \* os.path.exists(pdf_path)
    pdf,                 \* what the extractor yields: one record per page
    out_file,            \* the output path: None (absent) or Some(content)
    out_before,          \* the output path as it was when the run started
    pc,                  \* position of main / parse_pdf
    raised,              \* the exception travelling to main's handler
    final_structure,     \* final_structure["pages"]
    i,                   \* index of the page loop (page_num = i + 1)
    sorted_lines,        \* the lines of the current page
    li,                  \* position of the line loop in sorted_lines
    page_content,
    current_section,
    current_sub_section,
    previous_entry,      \* 0 for None, else the index in page_content of the entry
    written              \* number of pieces json.dump has written

vars ==
    <<input_exists, pdf, out_file, out_before, pc, raised, final_structure, i,
      sorted_lines, li, page_content, current_section, current_sub_section,
      previous_entry, written>>

env ==
    <<input_exists, pdf, out_before>>

page_locals ==
    <<sorted_lines, li, page_content, current_section, current_sub_section,
      previous_entry>>

Init ==
    /\ input_exists \in BOOLEAN
    /\ pdf \in (IF input_exists THEN Docs ELSE {<<>>})
    /\ out_file \in {None, Some(OldContent)}
    /\ out_before = out_file
    /\ pc = "main"
    /\ raised = "none"
    /\ final_structure = <<>>
    /\ i = 0
    /\ sorted_lines = <<>>
    /\ li = 1
    /\ page_content = <<>>
    /\ current_section = None
    /\ current_sub_section = None
    /\ previous_entry = 0
    /\ written = 0

\* an exception leaves parse_pdf: its locals are gone, main's handler is next
Unwind(exc) ==
    /\ pc' = "except"
    /\ raised' = exc
    /\ final_structure' = <<>>
    /\ i' = 0
    /\ sorted_lines' = <<>>
    /\ li' = 1
    /\ page_content' = <<>>
    /\ current_section' = None
    /\ current_sub_section' = None
    /\ previous_entry' = 0
    /\ written' = 0

(* ---------------------------------------------------------------------- *)
(* parse_pdf                                                              *)
(* ---------------------------------------------------------------------- *)

InputMissingUnchecked ==
    /\ pc = "main"
    /\ ~input_exists
    /\ pc' = "open"
    /\ UNCHANGED <<env, out_file, raised, final_structure, i, page_locals, written>>

\* lines 62-63
InputMissing ==
    /\ pc = "main"
    /\ ~input_exists
    /\ Unwind("FileNotFoundError")
    /\ UNCHANGED <<env, out_file>>

\* lines 62, 65
InputFound ==
    /\ pc = "main"
    /\ input_exists
    /\ final_structure' = <<>>
    /\ pc' = "open"
    /\ UNCHANGED <<env, out_file, raised, i, page_locals, written>>

\* line 67
OpenPdf ==
    /\ pc = "open"
    /\ i' = 0
    /\ pc' = "page"
    /\ UNCHANGED <<env, out_file, raised, final_structure, page_locals, written>>

\* the extractor fails on the file or on the current page
ExtractorFails ==
    /\ pc \in {"open", "line", "charts"}
    /\ Unwind("ExtractorError")
    /\ UNCHANGED <<env, out_file>>

\* lines 68-79
StartPage ==
    /\ pc = "page"
    /\ i < Len(pdf)
    /\ page_content' = <<>>
    /\ current_section' = None
    /\ current_sub_section' = None
    /\ sorted_lines' = SortedLines(pdf[i + 1].chars)
    /\ previous_entry' = 0
    /\ li' = 1
    /\ pc' = "line"
    /\ UNCHANGED <<env, out_file, raised, final_structure, i, written>>

line_text ==
    Strip(Join(sorted_lines[li].char_list))

role ==
    identify_text_role(sorted_lines[li].char_list)

InLineLoop ==
    pc = "line" /\ li <= Len(sorted_lines)

\* lines 82-84
SkipEmptyLine ==
    /\ InLineLoop
    /\ line_text = <<>>
    /\ li' = li + 1
    /\ UNCHANGED <<env, out_file, pc, raised, final_structure, i, sorted_lines,
                   page_content, current_section, current_sub_section,
                   previous_entry, written>>

\* lines 86-87
SkipHeaderFooter ==
    /\ InLineLoop
    /\ line_text # <<>>
    /\ IsHeaderFooter(line_text)
    /\ li' = li + 1
    /\ UNCHANGED <<env, out_file, pc, raised, final_structure, i, sorted_lines,
                   page_content, current_section, current_sub_section,
                   previous_entry, written>>

MergeNumberLineNoSpace ==
    /\ InLineLoop
    /\ line_text # <<>>
    /\ ~IsHeaderFooter(line_text)
    /\ is_number_line(line_text) /\ previous_entry # 0
    /\ current_section' = SectionAfter(role, line_text, current_section)
    /\ current_sub_section' = SubSectionAfter(role, line_text, current_sub_section)
    /\ page_content' = [page_content EXCEPT
                          ![previous_entry].text = Some(@[1] \o line_text)]
    /\ li' = li + 1
    /\ UNCHANGED <<env, out_file, pc, raised, final_structure, i, sorted_lines,
                   previous_entry, written>>

\* lines 89-98
MergeNumberLine ==
    /\ InLineLoop
    /\ line_text # <<>>
    /\ ~IsHeaderFooter(line_text)
    /\ is_number_line(line_text) /\ previous_entry # 0
    /\ current_section' = SectionAfter(role, line_text, current_section)
    /\ current_sub_section' = SubSectionAfter(role, line_text, current_sub_section)
    /\ page_content' = [page_content EXCEPT
                          ![previous_entry].text = Some(@[1] \o <<" ">> \o line_text)]
    /\ li' = li + 1
    /\ UNCHANGED <<env, out_file, pc, raised, final_structure, i, sorted_lines,
                   previous_entry, written>>

ParagraphEntry(section, sub_section, text, top) ==
    [type |-> "paragraph", section |-> section, sub_section |-> sub_section,
     text |-> Some(text), top |-> Some(<<top, 0>>),
     table_data |-> None, description |-> None, bbox |-> None]

\* lines 89-96, 100-108
EmitParagraph ==
    /\ InLineLoop
    /\ line_text # <<>>
    /\ ~IsHeaderFooter(line_text)
    /\ ~(is_number_line(line_text) /\ previous_entry # 0)
    /\ current_section' = SectionAfter(role, line_text, current_section)
    /\ current_sub_section' = SubSectionAfter(role, line_text, current_sub_section)
    /\ page_content' = Append(page_content,
                              ParagraphEntry(current_section', current_sub_section',
                                             line_text, sorted_lines[li].top))
    /\ previous_entry' = Len(page_content) + 1
    /\ li' = li + 1
    /\ UNCHANGED <<env, out_file, pc, raised, final_structure, i, sorted_lines, written>>

TableEntry(section, sub_section, tbl) ==
    [type |-> "table", section |-> section, sub_section |-> sub_section,
     text |-> None, top |-> None,
     table_data |-> Some(tbl), description |-> None, bbox |-> None]

TableEntries(grids, section, sub_section) ==
    [k \in 1..Len(grids) |-> TableEntry(section, sub_section, grids[k])]

PageTablesBoth(page) ==
    extract_tables_with_camelot(page.camelot) \o SelectSeq(page.tables, GridAccepted)

\* lines 110-131: the grids that become the page's table entries
PageTables(page) ==
    LET camelot_tables == extract_tables_with_camelot(page.camelot)
    IN  IF camelot_tables # <<>> THEN camelot_tables
        ELSE SelectSeq(page.tables, GridAccepted)

\* lines 110-131, entered when the line loop is exhausted
ExtractTables ==
    /\ pc = "line"
    /\ li > Len(sorted_lines)
    /\ page_content' = page_content \o
           TableEntries(PageTables(pdf[i + 1]), current_section, current_sub_section)
    /\ pc' = "charts"
    /\ UNCHANGED <<env, out_file, raised, final_structure, i, sorted_lines, li,
                   current_section, current_sub_section, previous_entry, written>>

ChartEntry(section, sub_section, page_num, img) ==
    [type |-> "chart", section |-> section, sub_section |-> sub_section,
     text |-> None, top |-> Some(img.top),
     table_data |-> None, description |-> Some(page_num),
     bbox |-> Some(<<img.x0, img.top, img.x1, img.bottom>>)]

\* lines 133-143: one candidate per image
ChartCandidates(images, section, sub_section, page_num) ==
    [k \in 1..Len(images) |-> ChartEntry(section, sub_section, page_num, images[k])]

\* lines 133-145
CollectCharts ==
    /\ pc = "charts"
    /\ page_content' = page_content \o
           deduplicate_charts(ChartCandidates(pdf[i + 1].images, current_section,
                                              current_sub_section, i + 1))
    /\ pc' = "sort"
    /\ UNCHANGED <<env, out_file, raised, final_structure, i, sorted_lines, li,
                   current_section, current_sub_section, previous_entry, written>>

\* lines 148-156
FinishPage ==
    /\ pc = "sort"
    /\ final_structure' = Append(final_structure,
           [page_number |-> i + 1, content |-> SortedByTop(page_content)])
    /\ i' = i + 1
    /\ pc' = "page"
    /\ UNCHANGED <<env, out_file, raised, page_locals, written>>

\* lines 68, 158, 172: the page loop is exhausted, parse_pdf returns
ReturnDocument ==
    /\ pc = "page"
    /\ i = Len(pdf)
    /\ pc' = "save"
    /\ UNCHANGED <<env, out_file, raised, final_structure, i, page_locals, written>>

(* ---------------------------------------------------------------------- *)
(* main                                                                   *)
(* ---------------------------------------------------------------------- *)

\* line 174: open(..., "w") creates or truncates the file
OpenOutput ==
    /\ pc = "save"
    /\ out_file' = Some(<<>>)
    /\ written' = 0
    /\ pc' = "dump"
    /\ UNCHANGED <<env, raised, final_structure, i, page_locals>>

\* line 174: open raises (directory missing, no permission)
OpenOutputFails ==
    /\ pc = "save"
    /\ Unwind("OSError")
    /\ UNCHANGED <<env, out_file>>

\* line 175: json.dump writes the next piece
WritePiece ==
    /\ pc = "dump"
    /\ written < Len(Serialize(final_structure))
    /\ out_file' = Some(Append(out_file[1], Serialize(final_structure)[written + 1]))
    /\ written' = written + 1
    /\ UNCHANGED <<env, pc, raised, final_structure, i, page_locals>>

\* line 175: a write raises (device full, I/O error)
WriteFails ==
    /\ pc = "dump"
    /\ written < Len(Serialize(final_structure))
    /\ Unwind("OSError")
    /\ UNCHANGED <<env, out_file>>

\* lines 175-177
FinishOutput ==
    /\ pc = "dump"
    /\ written = Len(Serialize(final_structure))
    /\ pc' = "done"
    /\ UNCHANGED <<env, out_file, raised, final_structure, i, page_locals, written>>

\* lines 179-180
HandleError ==
    /\ pc = "except"
    /\ pc' = "failed"
    /\ UNCHANGED <<env, out_file, raised, final_structure, i, page_locals, written>>

Next ==
    \/ InputMissing
    \/ InputFound
    \/ OpenPdf
    \/ ExtractorFails
    \/ StartPage
    \/ SkipEmptyLine
    \/ SkipHeaderFooter
    \/ MergeNumberLine
    \/ EmitParagraph
    \/ ExtractTables
    \/ CollectCharts
    \/ FinishPage
    \/ ReturnDocument
    \/ OpenOutput
    \/ OpenOutputFails
    \/ WritePiece
    \/ WriteFails
    \/ FinishOutput
    \/ HandleError

Spec ==
    Init /\ [][Next]_vars

(* ---------------------------------------------------------------------- *)
(* Vocabulary of the properties                                           *)
(* ---------------------------------------------------------------------- *)

TextOf(lines, k) ==
    Strip(Join(lines[k].char_list))

\* all-uppercase, at most two words, shorter than 15 characters
LooksLikeHeader(t) ==
    /\ \E k \in 1..Len(t) : t[k] \in UpperChars
    /\ \A k \in 1..Len(t) : t[k] \notin LowerChars
    /\ WordCount(t) <= 2
    /\ Len(t) < 15

\* a non-empty line that is not discarded as a header/footer
Retained(lines, k) ==
    TextOf(lines, k) # <<>> /\ ~LooksLikeHeader(TextOf(lines, k))

\* digits, at least one, with only spaces, hyphens, periods and percent signs between
NumberText(t) ==
    /\ \E k \in 1..Len(t) : t[k] \in DigitChars
    /\ \A k \in 1..Len(t) : t[k] \in DigitChars \cup {" ", "-", ".", "%"}

\* line k opens an entry: it is retained and is not a number line that has an
\* earlier retained line of the page to merge into
Anchor(lines, k) ==
    /\ Retained(lines, k)
    /\ \/ ~NumberText(TextOf(lines, k))
       \/ \A j \in 1..(k - 1) : ~Retained(lines, j)

RECURSIVE MergedTail(_, _, _)
\* the number lines merged behind an anchor, scanning from line j up to line n
MergedTail(lines, j, n) ==
    IF j > n THEN <<>>
    ELSE IF ~Retained(lines, j) THEN MergedTail(lines, j + 1, n)
    ELSE IF Anchor(lines, j) THEN <<>>
    ELSE <<" ">> \o TextOf(lines, j) \o MergedTail(lines, j + 1, n)

\* number of lines merged behind anchor a among the lines up to n
RECURSIVE MergedCount(_, _, _)
MergedCount(lines, j, n) ==
    IF j > n THEN 0
    ELSE IF ~Retained(lines, j) THEN MergedCount(lines, j + 1, n)
    ELSE IF Anchor(lines, j) THEN 0
    ELSE 1 + MergedCount(lines, j + 1, n)

AnchorsUpTo(lines, n) ==
    {k \in 1..n : Anchor(lines, k)}

MaxOf(S) ==
    CHOOSE x \in S : \A y \in S : y <= x

SectionLines(lines, n) ==
    {k \in 1..n : Retained(lines, k) /\ identify_text_role(lines[k].char_list) = "section"}

\* the section in force after the first n lines of the page
CtxSection(lines, n) ==
    IF SectionLines(lines, n) = {} THEN None
    ELSE Some(TextOf(lines, MaxOf(SectionLines(lines, n))))

\* the sub-section in force after the first n lines of the page
CtxSubSection(lines, n) ==
    LET from == IF SectionLines(lines, n) = {} THEN 0 ELSE MaxOf(SectionLines(lines, n))
        subs == {k \in (from + 1)..n :
                    /\ Retained(lines, k)
                    /\ identify_text_role(lines[k].char_list) = "sub_section"}
    IN  IF subs = {} THEN None ELSE Some(TextOf(lines, MaxOf(subs)))

OfType(content, type) ==
    SelectSeq(content, LAMBDA e : e.type = type)

(* ---------------------------------------------------------------------- *)
(* Number-line merging                                                    *)
(* ---------------------------------------------------------------------- *)

\* the k-th smallest element of a set of integers
RECURSIVE Nth(_, _)
Nth(S, k) ==
    LET m == CHOOSE x \in S : \A y \in S : x <= y
    IN  IF k = 1 THEN m ELSE Nth(S \ {m}, k - 1)

\* C3: while the lines of a page are processed, the entries are exactly the
\* anchors among the lines handled so far (a retained line that is not a
\* number line, or a number line with no entry before it); each entry keeps
\* the top of its anchor and the section context of its anchor, and its text
\* is the anchor's text followed by every number line merged behind it, in
\* line order, each preceded by exactly one space.
C3_NumberLinesMerge ==
    pc = "line" =>
        LET n == li - 1
            anchors == AnchorsUpTo(sorted_lines, n)
        IN  /\ Len(page_content) = Cardinality(anchors)
            /\ \A m \in 1..Len(page_content) :
                  LET a == Nth(anchors, m)
                      e == page_content[m]
                  IN  /\ e.type = "paragraph"
                      /\ e.top = Some(<<sorted_lines[a].top, 0>>)
                      /\ e.text = Some(TextOf(sorted_lines, a)
                                       \o MergedTail(sorted_lines, a + 1, n))
                      /\ e.section = CtxSection(sorted_lines, a)
                      /\ e.sub_section = CtxSubSection(sorted_lines, a)

\* two number lines in a row have been merged into one entry, the second of
\* them of section size
C3_Witness ==
    /\ pc = "line"
    /\ \E a \in AnchorsUpTo(sorted_lines, li - 1) :
          /\ MergedCount(sorted_lines, a + 1, li - 1) >= 2
          /\ CtxSection(sorted_lines, li - 1) # CtxSection(sorted_lines, a)

(* ---------------------------------------------------------------------- *)
(* Header/footer filter                                                   *)
(* ---------------------------------------------------------------------- *)

\* C7: a step of the line loop over a non-empty line that is all-uppercase,
\* has at most two words and is shorter than 15 characters changes neither the
\* entries, nor the merge anchor, nor the section context; a step over a
\* non-empty line failing one of the three conditions either appends a
\* paragraph entry with the line's text or appends the text to the anchor.
C7_HeaderFooterFilter ==
    [][(pc = "line" /\ li <= Len(sorted_lines) /\ pc' = "line" /\ li' = li + 1
           /\ TextOf(sorted_lines, li) # <<>>) =>
         LET t == TextOf(sorted_lines, li)
         IN  IF LooksLikeHeader(t)
             THEN /\ page_content' = page_content
                  /\ previous_entry' = previous_entry
                  /\ current_section' = current_section
                  /\ current_sub_section' = current_sub_section
             ELSE \/ /\ Len(page_content') = Len(page_content) + 1
                     /\ page_content'[Len(page_content')].type = "paragraph"
                     /\ page_content'[Len(page_content')].text = Some(t)
                     /\ SubSeq(page_content', 1, Len(page_content)) = page_content
                  \/ /\ NumberText(t)
                     /\ Len(page_content') = Len(page_content)
                     /\ Len(page_content) > 0
                     /\ page_content'[Len(page_content)].text =
                            Some(page_content[Len(page_content)].text[1] \o <<" ">> \o t)
       ]_vars

\* a header of section size was discarded between an entry and the rest of the
\* page, and a 15-character uppercase line was kept as an entry
C7_Witness ==
    /\ pc = "line"
    /\ \E k \in 1..(li - 1) :
          /\ LooksLikeHeader(TextOf(sorted_lines, k))
          /\ identify_text_role(sorted_lines[k].char_list) = "section"
          /\ \E j \in 1..(k - 1) : Anchor(sorted_lines, j)
    /\ \E m \in 1..Len(page_content) : page_content[m].text = Some(T_UP15)

(* ---------------------------------------------------------------------- *)
(* Section context                                                        *)
(* ---------------------------------------------------------------------- *)

LineWithTop(lines, top) ==
    CHOOSE k \in 1..Len(lines) : Some(<<lines[k].top, 0>>) = top

\* the entries of a page carry the context the property gives them
ContextCarried(lines, content) ==
    \A m \in 1..Len(content) :
        LET e == content[m]
        IN  IF e.type = "paragraph"
            THEN /\ e.section = CtxSection(lines, LineWithTop(lines, e.top))
                 /\ e.sub_section = CtxSubSection(lines, LineWithTop(lines, e.top))
            ELSE /\ e.section = CtxSection(lines, Len(lines))
                 /\ e.sub_section = CtxSubSection(lines, Len(lines))

\* C10: on every page the context after n lines is the text of the last
\* section-role line among them (null if none) and the text of the last
\* sub_section-role line after that section line (null if none), whatever the
\* earlier pages held; every paragraph entry carries the context as of its own
\* line, every table and chart entry the context after the page's last line.
C10_SectionContext ==
    /\ pc = "line" =>
          /\ current_section = CtxSection(sorted_lines, li - 1)
          /\ current_sub_section = CtxSubSection(sorted_lines, li - 1)
    /\ pc \in {"charts", "sort"} =>
          /\ current_section = CtxSection(sorted_lines, Len(sorted_lines))
          /\ current_sub_section = CtxSubSection(sorted_lines, Len(sorted_lines))
          /\ ContextCarried(sorted_lines, page_content)
    /\ \A p \in 1..Len(final_structure) :
          ContextCarried(SortedLines(pdf[p].chars), final_structure[p].content)

\* a finished page holds a paragraph created under a sub-section that a later
\* section line cleared, and a chart carrying the page's final context
C10_Witness ==
    \E p \in 1..Len(final_structure) :
        \E m, c \in 1..Len(final_structure[p].content) :
            LET e == final_structure[p].content[m]
                g == final_structure[p].content[c]
            IN  /\ e.type = "paragraph" /\ e.section = None /\ e.sub_section # None
                /\ g.type = "chart" /\ g.section # None /\ g.sub_section = None
                /\ c < m

\* a second page starts from the empty context although the first page ended
\* inside a section
C10_WitnessReset ==
    /\ pc = "line" /\ i = 1 /\ li = 1
    /\ final_structure[1].content # <<>>
    /\ final_structure[1].content[Len(final_structure[1].content)].section # None
    /\ current_section = None

(* ---------------------------------------------------------------------- *)
(* End-to-end example                                                     *)
(* ---------------------------------------------------------------------- *)

\* one page: "REVENUE" at size 16, then "Total revenue was", then "1 234"
RevenueDoc ==
    << TextPage(RunPalette[1] \o RunPalette[2] \o RunPalette[3]) >>

\* C2 as stated: the run over RevenueDoc yields a paragraph entry with section
\* "REVENUE" and text "Total revenue was 1 234", and no entry for "1 234".
C2_AsStated ==
    (pc = "done" /\ pdf = RevenueDoc) =>
        LET content == final_structure[1].content
        IN  /\ \E m \in 1..Len(content) :
                  /\ content[m].type = "paragraph"
                  /\ content[m].section = Some(T_REVENUE)
                  /\ content[m].text = Some(T_MERGED)
            /\ \A m \in 1..Len(content) : content[m].text # Some(T_NUM)

\* C2 amended: the run over RevenueDoc yields exactly one entry, a paragraph
\* at top 20 with text "Total revenue was 1 234" and with null section and
\* sub-section: the line "REVENUE" is discarded as a header/footer.
C2_RevenueExample ==
    (pc = "done" /\ pdf = RevenueDoc) =>
        /\ Len(final_structure) = 1
        /\ final_structure[1].page_number = 1
        /\ final_structure[1].content =
              << ParagraphEntry(None, None, T_MERGED, 20) >>

C2_Witness ==
    pc = "done" /\ pdf = RevenueDoc /\ out_file = Some(Serialize(final_structure))

(* ---------------------------------------------------------------------- *)
(* Tables                                                                 *)
(* ---------------------------------------------------------------------- *)

HasNonEmptyCell(grid) ==
    \E r \in 1..Len(grid) : \E c \in 1..Len(grid[r]) :
        grid[r][c] # None /\ grid[r][c] # Some("")

\* what the secondary engine returns for a page; nothing when it is absent or raises
EngineTables(page) ==
    IF page.camelot.installed /\ ~page.camelot.raises THEN page.camelot.tables ELSE <<>>

ExpectedGrids(page) ==
    IF EngineTables(page) # <<>> THEN EngineTables(page)
    ELSE SelectSeq(page.tables, HasNonEmptyCell)

GridsOf(content) ==
    [k \in 1..Len(OfType(content, "table")) |-> OfType(content, "table")[k].table_data[1]]

\* C4: once the tables of a page are collected, and in every finished page,
\* the grids of the table entries are the secondary engine's grids if it
\* returned any, else the primitive extractor's grids that have a non-empty
\* cell, in order; no exception is travelling after the table step.
C4_TableSelection ==
    /\ pc \in {"charts", "sort"} =>
          /\ GridsOf(page_content) = ExpectedGrids(pdf[i + 1])
          /\ raised = "none"
    /\ \A p \in 1..Len(final_structure) :
          GridsOf(final_structure[p].content) = ExpectedGrids(pdf[p])

\* the engine raised, the primitive extractor gave a blank grid and a filled
\* one, and the run finished with the one table
C4_Witness ==
    /\ pc = "done"
    /\ Len(pdf) = 1
    /\ pdf[1].camelot.installed /\ pdf[1].camelot.raises
    /\ pdf[1].tables = <<G_BLANK, G_B>>
    /\ GridsOf(final_structure[1].content) = <<G_B>>

(* ---------------------------------------------------------------------- *)
(* Charts                                                                 *)
(* ---------------------------------------------------------------------- *)

\* the bounding box of an image, each coordinate rounded to one decimal place
RoundedBox(img) ==
    <<Round1(img.x0), Round1(img.top), Round1(img.x1), Round1(img.bottom)>>

FirstOfItsBox(images, k) ==
    \A j \in 1..(k - 1) : RoundedBox(images[j]) # RoundedBox(images[k])

\* C5: the chart entries of a page are the candidates of exactly those images
\* that are the first with their rounded bounding box, in image order: a
\* subsequence of the candidates without two equal rounded boxes.
C5_ChartDedup ==
    pc = "sort" =>
        LET images == pdf[i + 1].images
            kept   == {k \in 1..Len(images) : FirstOfItsBox(images, k)}
            charts == OfType(page_content, "chart")
        IN  /\ Len(charts) = Cardinality(kept)
            /\ \A m \in 1..Len(charts) :
                  charts[m].bbox = Some(<<images[Nth(kept, m)].x0, images[Nth(kept, m)].top,
                                          images[Nth(kept, m)].x1, images[Nth(kept, m)].bottom>>)
            /\ \A m, n \in 1..Len(charts) :
                  m # n => BBoxKey(charts[m]) # BBoxKey(charts[n])

\* two different images with the same rounded box: only the first is kept
C5_Witness ==
    /\ pc = "sort"
    /\ Len(pdf[i + 1].images) = 2
    /\ pdf[i + 1].images[1] # pdf[i + 1].images[2]
    /\ RoundedBox(pdf[i + 1].images[1]) = RoundedBox(pdf[i + 1].images[2])
    /\ Len(OfType(page_content, "chart")) = 1

(* ---------------------------------------------------------------------- *)
(* Page order                                                             *)
(* ---------------------------------------------------------------------- *)

TypeRank(e) ==
    IF e.type = "paragraph" THEN 1 ELSE IF e.type = "table" THEN 2 ELSE 3

\* C1: in every finished page, entries with a numeric top are in ascending
\* order of top, every entry without a numeric top comes after every entry
\* with one, and entries of equal or absent top are in append order
\* (paragraphs, then tables, then charts).
C1_PageOrder ==
    \A p \in 1..Len(final_structure) :
        LET content == final_structure[p].content
        IN  \A m, n \in 1..Len(content) :
                m < n =>
                    /\ ~(content[m].top = None /\ content[n].top # None)
                    /\ (content[m].top # None /\ content[n].top # None)
                          => NumLeq(content[m].top[1], content[n].top[1])
                    /\ content[m].top = content[n].top
                          => TypeRank(content[m]) <= TypeRank(content[n])

(* ---------------------------------------------------------------------- *)
(* Role classification                                                    *)
(* ---------------------------------------------------------------------- *)

SameSizeMultiset(a, b) ==
    /\ Len(a) = Len(b)
    /\ \A k \in 1..Len(a) :
          FontSizeCount(a, RoundInt(a[k].size)) = FontSizeCount(b, RoundInt(a[k].size))

\* C6: two lines of a page whose characters have the same multiset of rounded
\* font sizes get the same role.
C6_RoleByMultiset ==
    pc = "line" =>
        \A a, b \in 1..Len(sorted_lines) :
            SameSizeMultiset(sorted_lines[a].char_list, sorted_lines[b].char_list)
                => identify_text_role(sorted_lines[a].char_list)
                     = identify_text_role(sorted_lines[b].char_list)

(* ---------------------------------------------------------------------- *)
(* Command line                                                           *)
(* ---------------------------------------------------------------------- *)

\* C8: when the input path does not exist the run goes from its start
\* straight to the handler with FileNotFoundError: the extractor is never
\* opened, no page is read, and the output path stays as it was.
C8_MissingInput ==
    ~input_exists =>
        /\ pc \in {"main", "except", "failed"}
        /\ pc # "main" => raised = "FileNotFoundError"
        /\ final_structure = <<>>
        /\ out_file = out_before

C8_Witness ==
    ~input_exists /\ pc = "failed" /\ raised = "FileNotFoundError"

IsCompleteDocument(content) ==
    /\ Len(content) >= 2
    /\ content[1].tok = "begin"
    /\ content[Len(content)].tok = "end"
    /\ \A k \in 2..(Len(content) - 1) : content[k].tok = "page"

\* C9: a run ends either with the output file holding the complete serialized
\* document or with the output path exactly as it was before the run.
C9_NoPartialOutput ==
    /\ pc = "done" => out_file = Some(Serialize(final_structure))
    /\ pc = "failed" =>
          \/ out_file = out_before
          \/ out_file # None /\ IsCompleteDocument(out_file[1])

====
